---------------------------- MODULE Spec2Model ----------------------------
(***************************************************************************)
(* Model of the PeptIQ trend-detection pipeline                            *)
(* (src/workflows/trend-detection/detector.py, class TrendDetector).       *)
(*                                                                         *)
(* Measurements (purity %, endotoxin EU/mg, residual TFA %) are held as    *)
(* integers in tenths of their unit, so that 2.0 is 20 and 1.5 is 15.      *)
(* A missing value (None / NaN in the DataFrame) is NULL.  The values the  *)
(* code computes from them (means, differences) are float64 numbers, and   *)
(* the model computes them bit for bit: a mean of 97.1, 97.1, 97.1 is      *)
(* 97.09999999999998 here as in the code.  The timestamps of a frame are   *)
(* distinct, so sort_values('createdAt') has one result.                   *)
(*                                                                         *)
(* The prompt built by generate_ai_insights (and analyze_market_trends,    *)
(* which only feeds it) goes to the text-generation service and comes back *)
(* as an opaque text: the model keeps the outcome of the request only.     *)
(***************************************************************************)
EXTENDS Integers, Sequences, FiniteSets, TLC

VARIABLES
    pc,             \* position of run(): start, fetched, declined, varianced,
                    \* scanned, insights, done, failed
    slack_webhook,  \* self.slack_webhook: NULL when SLACK_WEBHOOK_URL is unset
    df,             \* the DataFrame returned by fetch_recent_tests
    declining,      \* result of detect_declining_suppliers
    variance,       \* result of detect_batch_variance
    safety,         \* result of detect_safety_concerns
    ai,             \* text-generation request: none, ok, failed
    insights,       \* the insight brief (a sequence of characters)
    posts,          \* the requests.post calls made on the webhook, in order
    log             \* the lines run() printed, in order

vars == <<pc, slack_webhook, df, declining, variance, safety, ai, insights,
          posts, log>>

--------------------------------------------------------------------------
(* Bounds of the model *)

\* longest two-supplier frame handed to the detectors
MaxRecords == 5
\* longest single-supplier frame handed to the detectors
MaxDeep == 7
\* longest frame of records with safety measurements
MaxSafety == 2
\* longest frame of purities that are not whole percents
MaxTenths == 4
\* longest frame fetched by a whole run
MaxFetched == 4
\* number of supplier blocks in a fetched block frame
MaxBlocks == 3
\* longest insight brief returned by the text-generation service
MaxBrief == 502

--------------------------------------------------------------------------
(* Program constants, in tenths *)

NULL == -1

DeclineMinRecords == 4
RecentWindow == 3
PreviousEnd == 6
DeclineThreshold == 20
DeclineCritical == 50
VarianceMinRecords == 3
VarianceThreshold == 50
EndotoxinThreshold == 10
EndotoxinCritical == 20
TfaThreshold == 15
CriticalCap == 3
SummaryCut == 500

--------------------------------------------------------------------------
(* Arithmetic on sequences of measurements *)

RECURSIVE SeqMax(_)
SeqMax(s) ==
    IF Len(s) = 1 THEN Head(s)
    ELSE LET m == SeqMax(Tail(s)) IN IF Head(s) > m THEN Head(s) ELSE m

RECURSIVE SeqMin(_)
SeqMin(s) ==
    IF Len(s) = 1 THEN Head(s)
    ELSE LET m == SeqMin(Tail(s)) IN IF Head(s) < m THEN Head(s) ELSE m

\* the values present: pandas skips NaN in std, max and min
NotNa(s) == SelectSeq(s, LAMBDA v : v # NULL)

--------------------------------------------------------------------------
(* float64 arithmetic.  A float is [nan, neg, mag]: mag is its magnitude   *)
(* in units of 2^-120, written in eight limbs of 20 bits, lowest first     *)
(* (limbs 7 and 8 are the integer part).  Every float64 of magnitude from  *)
(* 2^-67 up to 2^40, and zero, is such a number.  Each operation computes  *)
(* the exact result and rounds it to 53 significant bits, ties to even, as *)
(* the hardware does; a result below 2^-67 is rounded to the unit instead. *)

LimbBits == 20

LimbBase == 1048576

\* LimbBase = DigitBase^2: products of two digits stay small
DigitBase == 1024

NLimbs == 8

FracLimbs == 6

MantissaBits == 53

\* a function on 1..n as the tuple of its values
AsSeq(f) == f \o <<>>

MagZero == AsSeq([i \in 1..NLimbs |-> 0])

\* the integer n
MagInt(n) ==
    AsSeq([i \in 1..NLimbs |-> IF i = FracLimbs + 1 THEN n % LimbBase
                               ELSE IF i = FracLimbs + 2 THEN n \div LimbBase
                               ELSE 0])

RECURSIVE Pow2(_)
Pow2(k) == IF k = 0 THEN 1 ELSE 2 * Pow2(k - 1)

\* 2^k units
Unit(k) ==
    AsSeq([i \in 1..NLimbs |-> IF i = (k \div LimbBits) + 1
                               THEN Pow2(k % LimbBits) ELSE 0])

\* limb by limb from the lowest, the carry going up
MagAdd(a, b) ==
    LET t1 == a[1] + b[1]
        t2 == a[2] + b[2] + (t1 \div LimbBase)
        t3 == a[3] + b[3] + (t2 \div LimbBase)
        t4 == a[4] + b[4] + (t3 \div LimbBase)
        t5 == a[5] + b[5] + (t4 \div LimbBase)
        t6 == a[6] + b[6] + (t5 \div LimbBase)
        t7 == a[7] + b[7] + (t6 \div LimbBase)
        t8 == a[8] + b[8] + (t7 \div LimbBase)
    IN  <<t1 % LimbBase, t2 % LimbBase, t3 % LimbBase, t4 % LimbBase,
          t5 % LimbBase, t6 % LimbBase, t7 % LimbBase, t8>>

\* a - b for a >= b: limb by limb from the lowest, the borrow going up
MagSub(a, b) ==
    LET t1 == a[1] - b[1]
        t2 == a[2] - b[2] - (IF t1 < 0 THEN 1 ELSE 0)
        t3 == a[3] - b[3] - (IF t2 < 0 THEN 1 ELSE 0)
        t4 == a[4] - b[4] - (IF t3 < 0 THEN 1 ELSE 0)
        t5 == a[5] - b[5] - (IF t4 < 0 THEN 1 ELSE 0)
        t6 == a[6] - b[6] - (IF t5 < 0 THEN 1 ELSE 0)
        t7 == a[7] - b[7] - (IF t6 < 0 THEN 1 ELSE 0)
        t8 == a[8] - b[8] - (IF t7 < 0 THEN 1 ELSE 0)
    IN  <<t1 % LimbBase, t2 % LimbBase, t3 % LimbBase, t4 % LimbBase,
          t5 % LimbBase, t6 % LimbBase, t7 % LimbBase, t8>>

RECURSIVE LessFrom(_, _, _)
LessFrom(a, b, i) ==
    IF i = 0 THEN FALSE
    ELSE IF a[i] # b[i] THEN a[i] < b[i]
    ELSE LessFrom(a, b, i - 1)

MagLess(a, b) == LessFrom(a, b, NLimbs)

\* quotient and remainder of a by a small positive integer c: limb by limb
\* from the highest, the remainder going down
MagDivSmall(a, c) ==
    LET t8 == a[8]
        t7 == (t8 % c) * LimbBase + a[7]
        t6 == (t7 % c) * LimbBase + a[6]
        t5 == (t6 % c) * LimbBase + a[5]
        t4 == (t5 % c) * LimbBase + a[4]
        t3 == (t4 % c) * LimbBase + a[3]
        t2 == (t3 % c) * LimbBase + a[2]
        t1 == (t2 % c) * LimbBase + a[1]
    IN  [q |-> <<t1 \div c, t2 \div c, t3 \div c, t4 \div c,
                 t5 \div c, t6 \div c, t7 \div c, t8 \div c>>,
         r |-> t1 % c]

\* a times a small positive integer m
MagTimesSmall(a, m) ==
    LET t1 == a[1] * m
        t2 == a[2] * m + (t1 \div LimbBase)
        t3 == a[3] * m + (t2 \div LimbBase)
        t4 == a[4] * m + (t3 \div LimbBase)
        t5 == a[5] * m + (t4 \div LimbBase)
        t6 == a[6] * m + (t5 \div LimbBase)
        t7 == a[7] * m + (t6 \div LimbBase)
        t8 == a[8] * m + (t7 \div LimbBase)
    IN  <<t1 % LimbBase, t2 % LimbBase, t3 % LimbBase, t4 % LimbBase,
          t5 % LimbBase, t6 % LimbBase, t7 % LimbBase, t8>>

\* the limbs of a cut in two digits each
Digits(a) ==
    AsSeq([j \in 1..(2 * Len(a)) |->
              IF j % 2 = 1 THEN a[(j + 1) \div 2] % DigitBase
              ELSE a[j \div 2] \div DigitBase])

\* the index of the lowest digit of x that is not 0, from i up (Len + 1 when
\* there is none)
RECURSIVE LowestFrom(_, _)
LowestFrom(x, i) ==
    IF i > Len(x) \/ x[i] # 0 THEN i ELSE LowestFrom(x, i + 1)

\* the index of the highest digit of x that is not 0, from i down (0 when
\* there is none)
RECURSIVE HighestFrom(_, _)
HighestFrom(x, i) ==
    IF i = 0 \/ x[i] # 0 THEN i ELSE HighestFrom(x, i - 1)

\* x[i]*y[k+1-i] + x[i+1]*y[k-i] + ... + x[to]*y[k+1-to]: the products of
\* weight k
RECURSIVE ColumnFrom(_, _, _, _, _)
ColumnFrom(x, y, k, i, to) ==
    IF i > to THEN 0
    ELSE x[i] * y[k + 1 - i] + ColumnFrom(x, y, k, i + 1, to)

\* the digits of x * y from weight k up; the digits of x outside xl..xh and
\* of y outside yl..yh are 0 and their products are left out
RECURSIVE ProductFrom(_, _, _, _, _, _, _, _)
ProductFrom(x, y, xl, xh, yl, yh, k, carry) ==
    IF k > 2 * Len(x) THEN <<>>
    ELSE LET from == IF k + 1 - yh > xl THEN k + 1 - yh ELSE xl
             to == IF k + 1 - yl < xh THEN k + 1 - yl ELSE xh
             t == carry + ColumnFrom(x, y, k, from, to)
         IN  <<t % DigitBase>>
             \o ProductFrom(x, y, xl, xh, yl, yh, k + 1, t \div DigitBase)

\* a times b: q the product cut to the unit, r whether something was cut
MagTimes(a, b) ==
    LET x == Digits(a)
        y == Digits(b)
        d == ProductFrom(x, y, LowestFrom(x, 1), HighestFrom(x, Len(x)),
                         LowestFrom(y, 1), HighestFrom(y, Len(y)), 1, 0)
    IN  [q |-> AsSeq([i \in 1..NLimbs |->
                         d[2 * (i + FracLimbs) - 1]
                         + DigitBase * d[2 * (i + FracLimbs)]]),
         r |-> IF \E j \in 1..(2 * FracLimbs) : d[j] # 0 THEN 1 ELSE 0]

RECURSIVE BitsOf(_)
BitsOf(x) == IF x = 0 THEN 0 ELSE 1 + BitsOf(x \div 2)

RECURSIVE BitLenFrom(_, _)
BitLenFrom(a, i) ==
    IF i = 0 THEN 0
    ELSE IF a[i] > 0 THEN LimbBits * (i - 1) + BitsOf(a[i])
    ELSE BitLenFrom(a, i - 1)

BitLen(a) == BitLenFrom(a, Len(a))

\* a without its k lowest bits
TruncLow(a, k) ==
    AsSeq([i \in 1..Len(a) |->
              IF i < (k \div LimbBits) + 1 THEN 0
              ELSE IF i = (k \div LimbBits) + 1
                   THEN a[i] - (a[i] % Pow2(k % LimbBits))
              ELSE a[i]])

\* the k lowest bits of a
LowPart(a, k) ==
    AsSeq([i \in 1..Len(a) |->
              IF i < (k \div LimbBits) + 1 THEN a[i]
              ELSE IF i = (k \div LimbBits) + 1 THEN a[i] % Pow2(k % LimbBits)
              ELSE 0])

\* bit k of a is set
OddAt(a, k) ==
    (a[(k \div LimbBits) + 1] \div Pow2(k % LimbBits)) % 2 = 1

\* the float64 magnitude nearest to a + r/c (0 <= r < c), ties to even
RoundNearest(a, r, c) ==
    LET k == BitLen(a) - MantissaBits
    IN  IF k <= 0
        THEN IF 2 * r > c \/ (2 * r = c /\ OddAt(a, 0))
             THEN MagAdd(a, Unit(0)) ELSE a
        ELSE LET low == LowPart(a, k)
                 half == Unit(k - 1)
                 up == \/ MagLess(half, low)
                       \/ low = half /\ (r > 0 \/ OddAt(a, k))
             IN  IF up THEN MagAdd(TruncLow(a, k), Unit(k))
                 ELSE TruncLow(a, k)

NaN == [nan |-> TRUE, neg |-> FALSE, mag |-> MagZero]

FloatOf(neg, mag) ==
    [nan |-> FALSE, neg |-> neg /\ mag # MagZero, mag |-> mag]

Zero == FloatOf(FALSE, MagZero)

\* the float64 a measurement of v tenths is stored as: the nearest to v/10
FromTenths(v) ==
    LET d == MagDivSmall(MagInt(v), 10)
    IN  FloatOf(FALSE, RoundNearest(d.q, d.r, 10))

\* a + b on floats
Plus(a, b) ==
    IF a.nan \/ b.nan THEN NaN
    ELSE IF a.neg = b.neg
         THEN FloatOf(a.neg, RoundNearest(MagAdd(a.mag, b.mag), 0, 1))
         ELSE IF MagLess(a.mag, b.mag)
              THEN FloatOf(b.neg, RoundNearest(MagSub(b.mag, a.mag), 0, 1))
              ELSE FloatOf(a.neg, RoundNearest(MagSub(a.mag, b.mag), 0, 1))

\* a - b on floats
Minus(a, b) ==
    IF b.nan THEN NaN ELSE Plus(a, FloatOf(~b.neg, b.mag))

\* a * b on floats
Times(a, b) ==
    IF a.nan \/ b.nan THEN NaN
    ELSE LET p == MagTimes(a.mag, b.mag)
         IN  FloatOf(a.neg # b.neg, RoundNearest(p.q, p.r, 3))

\* a / c on floats, for a count c
Over(a, c) ==
    IF a.nan THEN NaN
    ELSE LET d == MagDivSmall(a.mag, c)
         IN  FloatOf(a.neg, RoundNearest(d.q, d.r, c))

\* a > b on floats that are not NaN
Greater(a, b) ==
    IF a.neg # b.neg THEN b.neg
    ELSE IF a.neg THEN MagLess(a.mag, b.mag) ELSE MagLess(b.mag, a.mag)

\* a > t for a threshold literal of t tenths; FALSE on NaN
Exceeds(a, t) == ~a.nan /\ Greater(a, FromTenths(t))

\* one of the eight accumulators of numpy's pairwise sum: v[idx], v[idx-8],
\* ... summed from the lowest index up
RECURSIVE LaneSum(_, _)
LaneSum(v, idx) ==
    IF idx <= 8 THEN v[idx] ELSE Plus(LaneSum(v, idx - 8), v[idx])

\* res += v[i] for i = from .. Len(v)
RECURSIVE AddOn(_, _, _)
AddOn(res, v, from) ==
    IF from > Len(v) THEN res ELSE AddOn(Plus(res, v[from]), v, from + 1)

\* ndarray.sum() of float64: left to right below eight values, else eight
\* accumulators over the whole blocks of eight, combined pairwise, and the
\* remaining values added on
FloatSum(v) ==
    IF Len(v) < 8 THEN AddOn(Zero, v, 1)
    ELSE LET full == Len(v) - (Len(v) % 8)
             r == AsSeq([j \in 1..8 |-> LaneSum(v, full - 8 + j)])
         IN  AddOn(Plus(Plus(Plus(r[1], r[2]), Plus(r[3], r[4])),
                        Plus(Plus(r[5], r[6]), Plus(r[7], r[8]))),
                   v, full + 1)

\* Series.mean(): the NaN are summed as 0.0 and left out of the count; NaN
\* when no value is present
Mean(s) ==
    IF NotNa(s) = <<>> THEN NaN
    ELSE Over(FloatSum(AsSeq([i \in 1..Len(s) |->
                                 IF s[i] = NULL THEN Zero
                                 ELSE FromTenths(s[i])])),
              Len(NotNa(s)))

\* the integer part of a magnitude
IntPart(m) == m[FracLimbs + 1] + LimbBase * m[FracLimbs + 2]

\* round(float(a), 1) in tenths: the decimal nearest to the exact value of
\* the float, ties to the even tenth; NaN stays NaN (NULL)
Round1(a) ==
    IF a.nan THEN NULL
    ELSE LET m == MagTimesSmall(a.mag, 10)
             frac == LowPart(m, LimbBits * FracLimbs)
             half == Unit(LimbBits * FracLimbs - 1)
             up == \/ MagLess(half, frac)
                   \/ frac = half /\ IntPart(m) % 2 = 1
             q == IF up THEN IntPart(m) + 1 ELSE IntPart(m)
         IN  IF a.neg THEN 0 - q ELSE q

\* Series.max() - Series.min()
RangeOf(s) ==
    LET v == NotNa(s)
    IN  IF v = <<>> THEN NaN
        ELSE Minus(FromTenths(SeqMax(v)), FromTenths(SeqMin(v)))

\* floor of the square root of an integer
RECURSIVE ISqrt(_)
ISqrt(n) ==
    IF n < 2 THEN n
    ELSE LET t == 2 * ISqrt(n \div 4)
         IN  IF (t + 1) * (t + 1) <= n THEN t + 1 ELSE t

\* round(sqrt(a), 1) in tenths, for a float a >= 0 and sqrt the correctly
\* rounded root.  With q = floor(10 * sqrt(a)) the answer is q or q + 1, and
\* it is q + 1 when the float root lies above the halfway decimal
\* h = (2q+1)/20, or on it with q odd.  The float root is at least a float f
\* exactly when the real root is above the middle of f and the float before
\* it, that is when a is above the square of that middle (a float is never
\* the square of such a middle).
RootRound1(a) ==
    LET q == ISqrt(IntPart(MagTimesSmall(a.mag, 100)))
        h == MagDivSmall(MagInt(2 * q + 1), 20)
        k == BitLen(h.q) - MantissaBits
        below == TruncLow(h.q, k)
        onFloat == h.r = 0 /\ below = h.q
        middle == IF onFloat /\ q % 2 = 1
                  THEN MagSub(below, Unit(k - 1))
                  ELSE MagAdd(below, Unit(k - 1))
    IN  IF MagLess(MagTimes(middle, middle).q, a.mag) THEN q + 1 ELSE q

\* the deviations avg - value, 0.0 where the value is NaN
Deviations(s, avg) ==
    AsSeq([i \in 1..Len(s) |->
              IF s[i] = NULL THEN Zero ELSE Minus(avg, FromTenths(s[i]))])

\* the squares of the deviations
Squares(dev) == AsSeq([i \in 1..Len(dev) |-> Times(dev[i], dev[i])])

\* round(float(Series.std()), 1): the sample standard deviation as pandas
\* computes it, in two passes: avg = sum / count; the squares of avg - value
\* (0.0 where the value is NaN) are summed and divided by count - 1, and the
\* root is taken.  NaN with fewer than two values present.
StdRound1(s) ==
    IF Len(NotNa(s)) < 2 THEN NULL
    ELSE RootRound1(Over(FloatSum(Squares(Deviations(s, Mean(s)))),
                         Len(NotNa(s)) - 1))

Column(frame, field) == [i \in 1..Len(frame) |-> frame[i][field]]

--------------------------------------------------------------------------
(* DataFrame operations *)

\* df['supplierName'].unique(): the names in order of first appearance
RECURSIVE UniqueSuppliers(_)
UniqueSuppliers(frame) ==
    IF frame = <<>> THEN <<>>
    ELSE LET init == UniqueSuppliers(SubSeq(frame, 1, Len(frame) - 1))
             name == frame[Len(frame)].supplierName
         IN  IF \E i \in 1..Len(init) : init[i] = name
             THEN init ELSE Append(init, name)

\* df[df['supplierName'] == supplier]
SupplierRows(frame, supplier) ==
    SelectSeq(frame, LAMBDA r : r.supplierName = supplier)

RECURSIVE InsertByCreatedAt(_, _)
InsertByCreatedAt(r, sorted) ==
    IF sorted = <<>> THEN <<r>>
    ELSE IF r.createdAt < Head(sorted).createdAt THEN <<r>> \o sorted
         ELSE <<Head(sorted)>> \o InsertByCreatedAt(r, Tail(sorted))

\* sort_values('createdAt'): ascending
RECURSIVE SortValues(_)
SortValues(frame) ==
    IF frame = <<>> THEN <<>>
    ELSE InsertByCreatedAt(Head(frame), SortValues(Tail(frame)))

\* frame.iloc[a:b], positions counted from 0, b exclusive, clipped
Iloc(frame, a, b) ==
    SubSeq(frame, a + 1, IF b < Len(frame) THEN b ELSE Len(frame))

\* frame.head(n)
HeadRows(frame, n) == Iloc(frame, 0, n)

--------------------------------------------------------------------------
(* detect_declining_suppliers *)

\* supplier_df.head(3)['purity'].mean()
DeclineRecent(sdf) == Mean(Column(HeadRows(sdf, RecentWindow), "purity"))

\* Mutant of DeclinePrevious: the fallback to recent is taken unless records
\* exist beyond the [3,6) window
DeclinePreviousFallback(sdf, recent) ==
    IF Len(sdf) > PreviousEnd
    THEN Mean(Column(Iloc(sdf, RecentWindow, PreviousEnd), "purity"))
    ELSE recent

\* supplier_df.iloc[3:6]['purity'].mean() if len(supplier_df) > 3 else recent
DeclinePrevious(sdf, recent) ==
    IF Len(sdf) > RecentWindow
    THEN Mean(Column(Iloc(sdf, RecentWindow, PreviousEnd), "purity"))
    ELSE recent

\* the guard of the append: drop > 2.0
DeclineFlagged(drop) == Exceeds(drop, DeclineThreshold)

\* Mutant of DeclineSeverity: the CRITICAL boundary is inclusive
DeclineSeverityInclusive(drop) ==
    IF ~drop.nan /\ ~Greater(FromTenths(DeclineCritical), drop)
    THEN "CRITICAL" ELSE "WARNING"

\* 'CRITICAL' if drop > 5.0 else 'WARNING'
DeclineSeverity(drop) ==
    IF Exceeds(drop, DeclineCritical) THEN "CRITICAL" ELSE "WARNING"

\* the len(supplier_df) >= 4 guard
DeclineEligible(sdf) == Len(sdf) >= DeclineMinRecords

\* if drop > 2.0: declining.append({...})
DeclineAppend(supplier, sdf, previous, recent, drop) ==
    IF DeclineFlagged(drop)
    THEN << [supplier |-> supplier,
             peptide |-> sdf[1].peptideType,
             previous_avg |-> Round1(previous),
             recent_avg |-> Round1(recent),
             drop |-> Round1(drop),
             sample_count |-> Len(sdf),
             severity |-> DeclineSeverity(drop)] >>
    ELSE <<>>

\* drop = previous - recent
DeclineDrop(supplier, sdf, previous, recent) ==
    DeclineAppend(supplier, sdf, previous, recent, Minus(previous, recent))

\* the body of the loop for the sorted records sdf of one supplier
DeclineBody(supplier, sdf, recent) ==
    DeclineDrop(supplier, sdf, DeclinePrevious(sdf, recent), recent)

\* one iteration of the loop: the findings appended for one supplier
DeclineIteration(supplier, sdf) ==
    IF ~DeclineEligible(sdf) THEN <<>>
    ELSE DeclineBody(supplier, sdf, DeclineRecent(sdf))

\* supplier_df = df[df['supplierName'] == supplier].sort_values('createdAt')
DeclineOf(frame, supplier) ==
    DeclineIteration(supplier, SortValues(SupplierRows(frame, supplier)))

RECURSIVE DeclineLoop(_, _)
DeclineLoop(frame, suppliers) ==
    IF suppliers = <<>> THEN <<>>
    ELSE DeclineOf(frame, Head(suppliers))
         \o DeclineLoop(frame, Tail(suppliers))

detect_declining_suppliers(frame) ==
    DeclineLoop(frame, UniqueSuppliers(frame))

--------------------------------------------------------------------------
(* detect_batch_variance *)

\* the len(supplier_df) >= 3 guard
VarianceEligible(sdf) == Len(sdf) >= VarianceMinRecords

\* Mutant of VarianceFlagged: the boundary is inclusive
VarianceFlaggedInclusive(range_purity) ==
    ~range_purity.nan
    /\ ~Greater(FromTenths(VarianceThreshold), range_purity)

\* the guard of the append: range_purity > 5.0
VarianceFlagged(range_purity) == Exceeds(range_purity, VarianceThreshold)

\* if range_purity > 5.0: high_variance.append({...})
VarianceAppend(supplier, sdf, purity, range_purity) ==
    IF VarianceFlagged(range_purity)
    THEN << [supplier |-> supplier,
             peptide |-> sdf[1].peptideType,
             mean |-> Round1(Mean(purity)),
             std_dev |-> StdRound1(purity),
             range |-> Round1(range_purity),
             batches |-> Len(sdf),
             severity |-> "WARNING"] >>
    ELSE <<>>

\* one iteration of the loop: the findings appended for one supplier
VarianceIteration(supplier, sdf, purity) ==
    IF ~VarianceEligible(sdf) THEN <<>>
    ELSE VarianceAppend(supplier, sdf, purity, RangeOf(purity))

\* supplier_data = df[df['supplierName'] == supplier]
VarianceRows(supplier, sdf) ==
    VarianceIteration(supplier, sdf, Column(sdf, "purity"))

VarianceOf(frame, supplier) ==
    VarianceRows(supplier, SupplierRows(frame, supplier))

RECURSIVE VarianceLoop(_, _)
VarianceLoop(frame, suppliers) ==
    IF suppliers = <<>> THEN <<>>
    ELSE VarianceOf(frame, Head(suppliers))
         \o VarianceLoop(frame, Tail(suppliers))

detect_batch_variance(frame) ==
    VarianceLoop(frame, UniqueSuppliers(frame))

--------------------------------------------------------------------------
(* detect_safety_concerns *)

\* pd.notna(row.get('endotoxin')) and row['endotoxin'] > 1.0
EndotoxinHigh(row) ==
    row.endotoxin # NULL /\ row.endotoxin > EndotoxinThreshold

\* pd.notna(row.get('residualTfa')) and row['residualTfa'] > 1.5
TfaHigh(row) == row.residualTfa # NULL /\ row.residualTfa > TfaThreshold

\* severity after the endotoxin check
SeverityAfterEndotoxin(row) ==
    IF EndotoxinHigh(row)
    THEN IF row.endotoxin > EndotoxinCritical THEN "CRITICAL" ELSE "WARNING"
    ELSE "INFO"

\* severity after the residual TFA check: the assignment overwrites
SeverityAfterTfa(row, severity) ==
    IF TfaHigh(row) THEN "WARNING" ELSE severity

RowConcerns(row) ==
    (IF EndotoxinHigh(row)
     THEN << [what |-> "High endotoxin", value |-> row.endotoxin] >>
     ELSE <<>>)
    \o (IF TfaHigh(row)
        THEN << [what |-> "High residual TFA", value |-> row.residualTfa] >>
        ELSE <<>>)

\* one iteration of the loop over df.iterrows()
SafetyOf(row) ==
    LET concerns == RowConcerns(row)
        severity == SeverityAfterTfa(row, SeverityAfterEndotoxin(row))
    IN  IF concerns # <<>>
        THEN << [tracking_id |-> row.tracking_id,
                 supplier |-> row.supplierName,
                 peptide |-> row.peptideType,
                 concerns |-> concerns,
                 severity |-> severity] >>
        ELSE <<>>

RECURSIVE detect_safety_concerns(_)
detect_safety_concerns(frame) ==
    IF frame = <<>> THEN <<>>
    ELSE SafetyOf(Head(frame)) \o detect_safety_concerns(Tail(frame))

--------------------------------------------------------------------------
(* send_alerts *)

IsCritical(issue) == issue.severity = "CRITICAL"

\* [d for d in declining if CRITICAL] + [s for s in safety if CRITICAL]
CriticalIssues(decl, safe) ==
    SelectSeq(decl, IsCritical) \o SelectSeq(safe, IsCritical)

\* issue.get('concerns', [f"Quality drop: {issue.get('drop', 0)}%"]), of
\* which the first element is taken when it is a list (it always is)
ConcernText(issue) ==
    IF "concerns" \in DOMAIN issue
    THEN issue.concerns[1]
    ELSE [what |-> "Quality drop",
          value |-> IF "drop" \in DOMAIN issue THEN issue.drop ELSE 0]

\* one section block: *{supplier}*\n{concern_text}
SectionBlock(issue) ==
    [supplier |-> IF "supplier" \in DOMAIN issue
                  THEN issue.supplier ELSE "Unknown",
     concern |-> ConcernText(issue)]

\* Mutant of CappedIssues: every critical issue gets a section
CappedIssuesUncapped(critical) == critical

\* critical[:3]
CappedIssues(critical) == Iloc(critical, 0, CriticalCap)

\* the blocks message: the header and one section per issue of critical[:3]
CriticalPost(critical) ==
    [kind |-> "blocks",
     header |-> "CRITICAL QUALITY ALERTS",
     sections |-> [i \in 1..Len(CappedIssues(critical)) |->
                      SectionBlock(CappedIssues(critical)[i])]]

Marker == <<".", ".", ".">>

\* insights[:500] + "..."
AttachmentText(brief) == Iloc(brief, 0, SummaryCut) \o Marker

\* the weekly summary message
SummaryPost(decl, safe, brief, total_tests) ==
    [kind |-> "summary",
     total_tests |-> total_tests,
     declining |-> Len(decl),
     safety |-> Len(safe),
     attachment |-> AttachmentText(brief)]

\* Mutant of AlertPosts: the missing webhook is not checked
AlertPostsUnguarded(webhook, decl, safe, brief, total_tests) ==
    (IF CriticalIssues(decl, safe) # <<>>
     THEN <<CriticalPost(CriticalIssues(decl, safe))>>
     ELSE <<>>)
    \o <<SummaryPost(decl, safe, brief, total_tests)>>

\* the requests.post calls of send_alerts, in order, when none of them raises
AlertPosts(webhook, decl, safe, brief, total_tests) ==
    IF webhook = NULL THEN <<>>
    ELSE (IF CriticalIssues(decl, safe) # <<>>
          THEN <<CriticalPost(CriticalIssues(decl, safe))>>
          ELSE <<>>)
         \o <<SummaryPost(decl, safe, brief, total_tests)>>

--------------------------------------------------------------------------
(* The record sets *)

Suppliers == <<"Acme", "Beta", "Gamma", "Delta", "Omega", "Sigma">>

PeptideOf(createdAt) == IF createdAt % 2 = 1 THEN "BPC157" ELSE "TB500"

\* A frame as fetch_recent_tests returns it: ORDER BY createdAt DESC, so the
\* row at position i of n carries the (n - i + 1)-th timestamp.
MkFrame(payloads) ==
    [i \in 1..Len(payloads) |->
        [tracking_id |-> Len(payloads) - i + 1,
         createdAt |-> Len(payloads) - i + 1,
         peptideType |-> PeptideOf(Len(payloads) - i + 1),
         supplierName |-> payloads[i].supplierName,
         purity |-> payloads[i].purity,
         endotoxin |-> payloads[i].endotoxin,
         residualTfa |-> payloads[i].residualTfa]]

\* frame is one of the frames of lo..hi records drawn from payloads
FrameIn(frame, lo, hi, payloads) ==
    \E n \in lo..hi : \E f \in [1..n -> payloads] : frame = MkFrame(f)

\* two suppliers: purities 5.0 apart for one, 7.0 apart for the other
MixedPayloads ==
    [supplierName : {"Acme"}, purity : {850, 900},
     endotoxin : {NULL}, residualTfa : {NULL}]
    \cup [supplierName : {"Beta"}, purity : {830, 900},
          endotoxin : {NULL}, residualTfa : {NULL}]

\* one supplier, purities 3.0 apart or missing
DeepPayloads ==
    [supplierName : {"Acme"}, purity : {830, 860, NULL},
     endotoxin : {NULL}, residualTfa : {NULL}]

\* one supplier, purities that are not whole percents: 62.4 and 64.4, 59.4
\* and 64.4, 97.1 and 99.1 are 2.0, 5.0 and 2.0 apart as decimals and more
\* than that as float64
TenthPayloads ==
    [supplierName : {"Acme"}, purity : {594, 624, 644, 971, 991},
     endotoxin : {NULL}, residualTfa : {NULL}]

SafetyPayloads ==
    [supplierName : {"Acme"}, purity : {900},
     endotoxin : {NULL, 10, 15, 20, 25}, residualTfa : {NULL, 15, 20}]

\* six records of Acme whose purities, oldest first, are 99 98 97 85 84 83
AcmeExample ==
    MkFrame([i \in 1..6 |->
        [supplierName |-> "Acme",
         purity |-> <<830, 840, 850, 970, 980, 990>>[i],
         endotoxin |-> NULL, residualTfa |-> NULL]])

FetchedPayloads ==
    [supplierName : {"Acme"}, purity : {830, 900},
     endotoxin : {NULL, 25}, residualTfa : {NULL}]

\* A block: four records of one supplier, newest first; the newest differs
BlockProfiles ==
    [newest : {NULL, 870, 900}, endotoxin : {NULL, 25}]
    \ {[newest |-> NULL, endotoxin |-> 25]}

BlockOf(i, profile) ==
    IF profile.newest = NULL THEN <<>>
    ELSE [k \in 1..4 |->
            [supplierName |-> Suppliers[i],
             purity |-> IF k = 1 THEN profile.newest ELSE 830,
             endotoxin |-> IF k = 1 THEN profile.endotoxin ELSE NULL,
             residualTfa |-> NULL]]

RECURSIVE Blocks(_, _)
Blocks(g, n) == IF n = 0 THEN <<>> ELSE Blocks(g, n - 1) \o BlockOf(n, g[n])

\* frame is made of MaxBlocks blocks, absent ones included
BlockFrame(frame) ==
    \E g \in [1..MaxBlocks -> BlockProfiles] :
        frame = MkFrame(Blocks(g, MaxBlocks))

Letters == <<"a", "b", "c", "d", "e", "f", "g", "h", "i", "j">>

\* a response text of n characters
Brief(n) == [i \in 1..n |-> Letters[(i % 10) + 1]]

BriefLens == {1, SummaryCut, SummaryCut + 1, MaxBrief}

--------------------------------------------------------------------------
(* run() *)

Init ==
    /\ pc = "start"
    /\ slack_webhook \in {NULL, 1}
    /\ df = <<>>
    /\ declining = <<>>
    /\ variance = <<>>
    /\ safety = <<>>
    /\ ai = "none"
    /\ insights = <<>>
    /\ posts = <<>>
    /\ log = <<>>

\* df = self.fetch_recent_tests(days=7)
Fetch ==
    /\ pc = "start"
    /\ \/ FrameIn(df', 0, MaxFetched, FetchedPayloads)
       \/ BlockFrame(df')
    /\ pc' = "fetched"
    /\ log' = Append(log, "Running trend detection")
    /\ UNCHANGED <<slack_webhook, declining, variance, safety, ai, insights,
                   posts>>

\* the query raises: nothing catches it
FetchFails ==
    /\ pc = "start"
    /\ pc' = "failed"
    /\ log' = Append(log, "Running trend detection")
    /\ UNCHANGED <<slack_webhook, df, declining, variance, safety, ai,
                   insights, posts>>

\* Mutant of NoRecentTests: the empty frame does not end the run
NoRecentTestsContinues ==
    /\ pc = "fetched"
    /\ Len(df) = 0
    /\ pc' = "declined"
    /\ log' = Append(log, "No recent tests found")
    /\ UNCHANGED <<slack_webhook, df, declining, variance, safety, ai,
                   insights, posts>>

\* if len(df) == 0: print("No recent tests found"); return
NoRecentTests ==
    /\ pc = "fetched"
    /\ Len(df) = 0
    /\ pc' = "done"
    /\ log' = Append(log, "No recent tests found")
    /\ UNCHANGED <<slack_webhook, df, declining, variance, safety, ai,
                   insights, posts>>

DetectDeclining ==
    /\ pc = "fetched"
    /\ Len(df) # 0
    /\ declining' = detect_declining_suppliers(df)
    /\ pc' = "declined"
    /\ UNCHANGED <<slack_webhook, df, variance, safety, ai, insights, posts,
                   log>>

DetectVariance ==
    /\ pc = "declined"
    /\ variance' = detect_batch_variance(df)
    /\ pc' = "varianced"
    /\ UNCHANGED <<slack_webhook, df, declining, safety, ai, insights, posts,
                   log>>

DetectSafety ==
    /\ pc = "varianced"
    /\ safety' = detect_safety_concerns(df)
    /\ pc' = "scanned"
    /\ UNCHANGED <<slack_webhook, df, declining, variance, ai, insights,
                   posts, log>>

\* generate_ai_insights returns message.content[0].text
GenerateInsights ==
    /\ pc = "scanned"
    /\ \E n \in BriefLens : insights' = Brief(n)
    /\ ai' = "ok"
    /\ pc' = "insights"
    /\ UNCHANGED <<slack_webhook, df, declining, variance, safety, posts,
                   log>>

\* Mutant of GenerateInsightsFails: the failure is caught and a fallback
\* text stands in for the brief
GenerateInsightsFallsBack ==
    /\ pc = "scanned"
    /\ ai' = "failed"
    /\ insights' = Brief(1)
    /\ pc' = "insights"
    /\ UNCHANGED <<slack_webhook, df, declining, variance, safety, posts,
                   log>>

\* self.claude.messages.create raises (failure, timeout): nothing catches it
GenerateInsightsFails ==
    /\ pc = "scanned"
    /\ ai' = "failed"
    /\ pc' = "failed"
    /\ UNCHANGED <<slack_webhook, df, declining, variance, safety, insights,
                   posts, log>>

\* send_alerts returns, then run() prints its two closing lines
SendAlerts ==
    /\ pc = "insights"
    /\ posts' = AlertPosts(slack_webhook, declining, safety, insights,
                           Len(df))
    /\ pc' = "done"
    /\ log' = log \o <<"Complete", "Insights">>
    /\ UNCHANGED <<slack_webhook, df, declining, variance, safety, ai,
                   insights>>

\* the post of the critical message raises: the summary is never posted
CriticalPostFails ==
    /\ pc = "insights"
    /\ slack_webhook # NULL
    /\ CriticalIssues(declining, safety) # <<>>
    /\ posts' = <<CriticalPost(CriticalIssues(declining, safety))>>
    /\ pc' = "failed"
    /\ UNCHANGED <<slack_webhook, df, declining, variance, safety, ai,
                   insights, log>>

\* the post of the summary raises
SummaryPostFails ==
    /\ pc = "insights"
    /\ slack_webhook # NULL
    /\ posts' = AlertPosts(slack_webhook, declining, safety, insights,
                           Len(df))
    /\ pc' = "failed"
    /\ UNCHANGED <<slack_webhook, df, declining, variance, safety, ai,
                   insights, log>>

Next ==
    \/ Fetch
    \/ FetchFails
    \/ NoRecentTests
    \/ DetectDeclining
    \/ DetectVariance
    \/ DetectSafety
    \/ GenerateInsights
    \/ GenerateInsightsFails
    \/ SendAlerts
    \/ CriticalPostFails
    \/ SummaryPostFails

Spec == Init /\ [][Next]_vars

\* The detectors applied to a frame: the state of run() right after a fetch
InitDetect ==
    /\ pc = "fetched"
    /\ slack_webhook = NULL
    /\ \/ FrameIn(df, 1, MaxRecords, MixedPayloads)
       \/ FrameIn(df, 1, MaxDeep, DeepPayloads)
       \/ FrameIn(df, DeclineMinRecords, MaxTenths, TenthPayloads)
       \/ FrameIn(df, 1, MaxSafety, SafetyPayloads)
       \/ df = AcmeExample
    /\ declining = <<>>
    /\ variance = <<>>
    /\ safety = <<>>
    /\ ai = "none"
    /\ insights = <<>>
    /\ posts = <<>>
    /\ log = <<"Running trend detection">>

NextDetect ==
    \/ DetectDeclining
    \/ DetectVariance
    \/ DetectSafety

SpecDetect == InitDetect /\ [][NextDetect]_vars

--------------------------------------------------------------------------
(* Vocabulary of the properties *)

SupplierSet(frame) == {frame[i].supplierName : i \in 1..Len(frame)}

\* a supplier's purities, oldest record first
PuritiesAscending(frame, supplier) ==
    Column(SortValues(SupplierRows(frame, supplier)), "purity")

\* a supplier's purities in the order of the frame
Purities(frame, supplier) == Column(SupplierRows(frame, supplier), "purity")

\* mean of the (at most three) purities at positions 1..3, oldest first
FirstThreeAvg(p) == Mean(SubSeq(p, 1, IF Len(p) < 3 THEN Len(p) ELSE 3))

\* mean of the purities at positions [3,6) counted from 0, oldest first
NextThreeAvg(p) == Mean(SubSeq(p, 4, IF Len(p) < 6 THEN Len(p) ELSE 6))

FindingsFor(findings, supplier) ==
    {i \in 1..Len(findings) : findings[i].supplier = supplier}

DeclineDone == pc \notin {"start", "fetched"}

VarianceDone == pc \notin {"start", "fetched", "declined"}

SafetyDone == pc \notin {"start", "fetched", "declined", "varianced"}

--------------------------------------------------------------------------
(* Properties of detect_safety_concerns *)

\* C1: once the safety scan has run, every record with endotoxin above 2.0
\* and residual TFA above 1.5 has a safety finding of severity CRITICAL (the
\* later TFA check never lowers the severity the endotoxin check set).
C1_NeverDowngraded ==
    SafetyDone =>
        \A i \in 1..Len(df) :
            (df[i].endotoxin # NULL /\ df[i].endotoxin > 20
             /\ df[i].residualTfa # NULL /\ df[i].residualTfa > 15)
            => \E j \in 1..Len(safety) :
                   /\ safety[j].tracking_id = df[i].tracking_id
                   /\ safety[j].severity = "CRITICAL"

--------------------------------------------------------------------------
(* Properties of detect_declining_suppliers *)

\* C2: once the decline detector has run, a supplier of the frame has a
\* decline finding (at most one) iff it has at least 4 records and
\* drop = previousAvg - recentAvg exceeds 2.0; the finding is CRITICAL iff
\* drop exceeds 5.0 and WARNING iff 2.0 < drop <= 5.0; every finding belongs
\* to a supplier of the frame.  The averages and the drop are the float64
\* values: 99.1 against a mean of 97.1, 97.1, 97.1 is a drop above 2.0.
C2_DeclineThresholds ==
    DeclineDone =>
        /\ \A i \in 1..Len(declining) : declining[i].supplier \in SupplierSet(df)
        /\ \A s \in SupplierSet(df) :
            LET p == PuritiesAscending(df, s)
                drop == Minus(NextThreeAvg(p), FirstThreeAvg(p))
                found == FindingsFor(declining, s)
            IN  /\ Cardinality(found) <= 1
                /\ (found # {}) <=> (Len(p) >= 4 /\ Exceeds(drop, 20))
                /\ \A i \in found :
                    /\ declining[i].severity \in {"CRITICAL", "WARNING"}
                    /\ (declining[i].severity = "CRITICAL")
                           <=> Exceeds(drop, 50)
                    /\ (declining[i].severity = "WARNING")
                           <=> (Exceeds(drop, 20) /\ ~Exceeds(drop, 50))

\* C2 witness: a supplier with four records and a drop of exactly 5.0 is
\* reported as WARNING while another supplier of the frame, with fewer than
\* four records, is not reported.
C2_Witness ==
    /\ pc = "declined"
    /\ Len(declining) = 1
    /\ declining[1].severity = "WARNING"
    /\ declining[1].drop = 50
    /\ declining[1].sample_count = 4
    /\ \E s \in SupplierSet(df) :
           s # declining[1].supplier /\ Len(Purities(df, s)) < 4

\* C3: for the six Acme records whose purities, oldest first, are
\* 99 98 97 85 84 83 the detector reports recentAvg 98.0, previousAvg 84.0,
\* drop 14.0 in one CRITICAL finding.
C3_AcmeExampleCritical ==
    (DeclineDone /\ df = AcmeExample) =>
        /\ Len(declining) = 1
        /\ declining[1].supplier = "Acme"
        /\ declining[1].recent_avg = 980
        /\ declining[1].previous_avg = 840
        /\ declining[1].drop = 140
        /\ declining[1].severity = "CRITICAL"

\* C10 as stated: for a supplier with at least 4 records, previousAvg is the
\* mean of positions [3,6) only when at least 4 records lie beyond position
\* 3 (7 records or more); with fewer, previousAvg is recentAvg, the drop is
\* zero and the supplier has no finding.
C10_FallbackForShortSuppliers ==
    DeclineDone =>
        \A s \in SupplierSet(df) :
            LET p == PuritiesAscending(df, s)
                found == FindingsFor(declining, s)
            IN  Len(p) >= 4 =>
                    IF Len(p) >= 7
                    THEN \A i \in found :
                            declining[i].previous_avg = Round1(NextThreeAvg(p))
                    ELSE found = {}

\* C10 amended: for a supplier with at least 4 records previousAvg is always
\* the mean of the records at positions [3,6), oldest first (the one to
\* three that exist); the fallback to recentAvg is never taken, and the
\* supplier has a finding, carrying both averages, whenever that mean
\* exceeds recentAvg by more than 2.0.
C10_PreviousIsNextThree ==
    DeclineDone =>
        \A s \in SupplierSet(df) :
            LET p == PuritiesAscending(df, s)
                found == FindingsFor(declining, s)
            IN  Len(p) >= 4 =>
                    /\ Exceeds(Minus(NextThreeAvg(p), FirstThreeAvg(p)), 20)
                           => found # {}
                    /\ \A i \in found :
                        /\ declining[i].previous_avg = Round1(NextThreeAvg(p))
                        /\ declining[i].recent_avg = Round1(FirstThreeAvg(p))
                        /\ declining[i].previous_avg # declining[i].recent_avg

\* C10 witness: a supplier with exactly four records (one record in [3,6),
\* none beyond) has a finding whose previousAvg is that one purity.
C10_Witness ==
    /\ pc = "declined"
    /\ \E i \in 1..Len(declining) :
        /\ declining[i].sample_count = 4
        /\ declining[i].previous_avg = 860
        /\ declining[i].recent_avg = 830

--------------------------------------------------------------------------
(* Properties of detect_batch_variance *)

\* C8: once the variance analyzer has run, a supplier of the frame has a
\* variance finding (at most one) iff it has at least 3 records and its
\* max - min purity exceeds 5.0 (exactly 5.0 gives none); every variance
\* finding is a WARNING.  The range is the float64 difference: 64.4 - 59.4
\* is above 5.0, 90.0 - 85.0 is 5.0.
C8_VarianceThreshold ==
    VarianceDone =>
        /\ \A i \in 1..Len(variance) :
            /\ variance[i].supplier \in SupplierSet(df)
            /\ variance[i].severity = "WARNING"
        /\ \A s \in SupplierSet(df) :
            LET p == NotNa(Purities(df, s))
                n == Len(Purities(df, s))
                found == FindingsFor(variance, s)
            IN  /\ Cardinality(found) <= 1
                /\ (found # {}) <=>
                       /\ n >= 3
                       /\ p # <<>>
                       /\ Exceeds(Minus(FromTenths(SeqMax(p)),
                                        FromTenths(SeqMin(p))), 50)

\* C8 witness: a supplier with three records is reported while another
\* supplier of the frame, with fewer than three records, is not.
C8_Witness ==
    /\ pc = "varianced"
    /\ Len(variance) = 1
    /\ variance[1].batches = 3
    /\ variance[1].range = 70
    /\ \E s \in SupplierSet(df) :
           s # variance[1].supplier /\ Len(Purities(df, s)) < 3

--------------------------------------------------------------------------
(* Properties of run() and send_alerts *)

WebhookPosts(kind) == {i \in 1..Len(posts) : posts[i].kind = kind}

CriticalDeclines == SelectSeq(declining, LAMBDA d : d.severity = "CRITICAL")

CriticalSafety == SelectSeq(safety, LAMBDA f : f.severity = "CRITICAL")

WarningCount ==
    Cardinality({i \in 1..Len(declining) : declining[i].severity = "WARNING"})
    + Cardinality({i \in 1..Len(variance) : variance[i].severity = "WARNING"})
    + Cardinality({i \in 1..Len(safety) : safety[i].severity = "WARNING"})

\* C4: when the fetch returned no record, the next step of the run ends it
\* successfully with no finding, no text-generation request and no webhook
\* post, and nothing happens after that.
C4_EmptyFetchIsNoOp ==
    [][(Len(df) = 0 /\ pc \in {"fetched", "done"}) =>
          /\ pc' = "done"
          /\ declining' = <<>> /\ variance' = <<>> /\ safety' = <<>>
          /\ ai' = "none"
          /\ insights' = <<>>
          /\ posts' = <<>>
          /\ log' = <<"Running trend detection", "No recent tests found">>]_vars

\* C4 witness: a run that fetched nothing has ended successfully
C4_Witness ==
    /\ pc = "done"
    /\ Len(df) = 0
    /\ log = <<"Running trend detection", "No recent tests found">>
    /\ ai = "none"
    /\ posts = <<>>
    /\ slack_webhook # NULL

\* C5: a run whose text-generation request failed has ended in failure with
\* no webhook post and no insight text; every webhook post of a run comes
\* after a successful text-generation response.
C5_NoAlertWithoutInsights ==
    /\ ai = "failed" => (pc = "failed" /\ posts = <<>> /\ insights = <<>>)
    /\ posts # <<>> => ai = "ok"
    /\ pc \in {"insights", "done"} /\ Len(df) # 0 => ai = "ok"

\* C5 witness: the request failed in a run that had critical findings and a
\* configured webhook
C5_Witness ==
    /\ ai = "failed"
    /\ pc = "failed"
    /\ slack_webhook # NULL
    /\ CriticalDeclines # <<>>
    /\ CriticalSafety # <<>>

\* C6: when send_alerts returns with a webhook configured, the posts are
\* the critical message, present iff there is a CRITICAL decline or safety
\* finding and holding one section for each of the first min(3, n) of them
\* (declines first, then safety, in order), followed by exactly one summary.
C6_AlertPartition ==
    (pc = "done" /\ slack_webhook # NULL /\ Len(df) # 0) =>
        LET critical == CriticalDeclines \o CriticalSafety
            k == IF Len(critical) < 3 THEN Len(critical) ELSE 3
        IN  /\ Len(posts) = (IF critical = <<>> THEN 1 ELSE 2)
            /\ Cardinality(WebhookPosts("summary")) = 1
            /\ posts[Len(posts)].kind = "summary"
            /\ critical # <<>> =>
                /\ posts[1].kind = "blocks"
                /\ Len(posts[1].sections) = k
                /\ \A i \in 1..k :
                    /\ posts[1].sections[i].supplier = critical[i].supplier
                    /\ posts[1].sections[i].concern =
                         IF i <= Len(CriticalDeclines)
                         THEN [what |-> "Quality drop",
                               value |-> critical[i].drop]
                         ELSE critical[i].concerns[1]

\* C6 witness: 2 CRITICAL declines, 1 CRITICAL safety finding and 3 WARNING
\* findings gave a critical message of 3 sections and one summary
C6_Witness ==
    /\ pc = "done"
    /\ slack_webhook # NULL
    /\ Len(CriticalDeclines) = 2
    /\ Len(CriticalSafety) = 1
    /\ WarningCount = 3
    /\ Len(posts) = 2
    /\ Len(posts[1].sections) = 3
    /\ posts[2].kind = "summary"

\* C7: the attachment of every summary posted is the first 500 characters
\* of the brief followed by the marker when the brief is longer than 500
\* characters, and the brief unchanged otherwise.
C7_MarkerOnlyWhenTruncated ==
    \A i \in WebhookPosts("summary") :
        posts[i].attachment =
            IF Len(insights) > 500
            THEN SubSeq(insights, 1, 500) \o <<".", ".", ".">>
            ELSE insights

\* C9: with no webhook configured no step of a run makes a webhook post,
\* and the step after a successful text-generation response ends the run
\* successfully.
C9_NoWebhookNoPosts ==
    [][slack_webhook = NULL =>
          /\ posts' = <<>>
          /\ pc = "insights" => pc' = "done"]_vars

\* C9 witness: a run with CRITICAL findings and a brief ended successfully
\* with no webhook configured and no post made
C9_Witness ==
    /\ pc = "done"
    /\ slack_webhook = NULL
    /\ ai = "ok"
    /\ CriticalDeclines # <<>>
    /\ CriticalSafety # <<>>
    /\ posts = <<>>
    /\ log = <<"Running trend detection", "Complete", "Insights">>

==========================================================================
